---- MODULE Spec2Model ----
(***************************************************************************)
(* Model of tools/custom_built/simple_port_scanner.go: a sequential TCP    *)
(* connect scan of ports 20..1024 of one fixed target.  Every step of main *)
(* is one action; the network (which ports accept a connection, whether    *)
(* the host name resolves) is the environment, fixed for one behaviour.    *)
(***************************************************************************)
EXTENDS Integers, Sequences, FiniteSets

\* ---- program constants -------------------------------------------------
\* for port := 20; ...
LowPort == 20
\* ...; port <= 1024; ...
HighPort == 1024
\* target := "scanme.nmap.org"
Target == "scanme.nmap.org"

\* ---- bounds of the environment ----------------------------------------
\* Ports of the target that may accept connections are drawn from
\* MaxLowCandidates ports around the low end of the range (starting one
\* below it) and the two ports around the high end.
MaxLowCandidates == 3

Candidates ==
    ((LowPort - 1)..(LowPort + MaxLowCandidates - 2)) \cup {HighPort, HighPort + 1}

VARIABLES
    pc,         \* position in main: "for", "if", "close", "done"
    port,       \* the loop variable
    err,        \* err of the last net.DialTimeout: "nil", "refused",
                \* "timeout" or "resolve"
    conn,       \* conn of the last net.DialTimeout: a port, or 0 for nil
    sockets,    \* connections currently open (by remote port)
    stdout,     \* lines written by fmt.Printf
    exitCode,   \* -1 while running, else the exit status of the process
    run,        \* which execution of the program this is (1 or 2)
    prevStdout, \* stdout of the previous execution
    accepting,  \* environment: ports of the target that accept a connection
    resolves,   \* environment: whether the target host name resolves
    attempted,  \* history: ports dialled so far, in order
    succeeded   \* history: ports whose dial returned err == nil

vars == <<pc, port, err, conn, sockets, stdout, exitCode, run, prevStdout,
          accepting, resolves, attempted, succeeded>>

env == <<accepting, resolves>>

\* fmt.Sprintf("%s:%d", target, port)
Address(p) == <<Target, ":", p>>

\* fmt.Printf("Port %d open\n", port)
Line(p) == <<"Port", p, "open">>

\* The port number a line of output reports.
PortOf(line) == line[2]

\* The ports reported on an output, in order of emission.
Reported(out) == [i \in DOMAIN out |-> PortOf(out[i])]

ReportedSet(out) == {PortOf(out[i]) : i \in DOMAIN out}

\* A dial without a deadline: a port that never answers blocks the call.
DialOutcomesNoTimeout(address) ==
    IF ~resolves THEN {"resolve"}
    ELSE IF address[3] \in accepting THEN {"nil"}
    ELSE {}

\* Outcomes net.DialTimeout("tcp", address, 1*time.Second) can return for
\* an address: the host is resolved on every call; a resolution failure is
\* an error like any other.
DialOutcomes(address) ==
    IF ~resolves THEN {"resolve"}
    ELSE IF address[3] \in accepting THEN {"nil"}
    ELSE {"refused", "timeout"}

\* State at the start of main.
Start ==
    /\ pc = "for"
    /\ port = LowPort
    /\ err = "nil"
    /\ conn = 0
    /\ sockets = {}
    /\ stdout = <<>>
    /\ exitCode = -1
    /\ attempted = <<>>
    /\ succeeded = {}

Init ==
    /\ Start
    /\ run = 1
    /\ prevStdout = <<>>
    /\ accepting \in SUBSET Candidates
    /\ resolves \in BOOLEAN

\* Loop condition true; address := Sprintf(...); conn, err := DialTimeout(...)
Dial ==
    /\ pc = "for"
    /\ port <= HighPort
    /\ \E e \in DialOutcomes(Address(port)) :
          /\ err' = e
          /\ conn' = IF e = "nil" THEN Address(port)[3] ELSE 0
          /\ sockets' = IF e = "nil" THEN sockets \cup {Address(port)[3]} ELSE sockets
          /\ succeeded' = IF e = "nil" THEN succeeded \cup {Address(port)[3]} ELSE succeeded
    /\ attempted' = Append(attempted, Address(port)[3])
    /\ pc' = "if"
    /\ UNCHANGED <<port, stdout, exitCode, run, prevStdout, env>>

\* The report is printed a second time (a leftover print statement).
ReportTwice ==
    /\ pc = "if"
    /\ err = "nil"
    /\ stdout' = Append(Append(stdout, Line(port)), Line(port))
    /\ pc' = "close"
    /\ UNCHANGED <<port, err, conn, sockets, exitCode, run, prevStdout, env,
                   attempted, succeeded>>

\* if err == nil { fmt.Printf("Port %d open\n", port)
Report ==
    /\ pc = "if"
    /\ err = "nil"
    /\ stdout' = Append(stdout, Line(port))
    /\ pc' = "close"
    /\ UNCHANGED <<port, err, conn, sockets, exitCode, run, prevStdout, env,
                   attempted, succeeded>>

\* conn.Close() forgotten.
CloseLeak ==
    /\ pc = "close"
    /\ port' = port + 1
    /\ pc' = "for"
    /\ UNCHANGED <<err, conn, sockets, stdout, exitCode, run, prevStdout, env,
                   attempted, succeeded>>

\* port-- instead of port++ after a successful connect.
CloseBackwards ==
    /\ pc = "close"
    /\ sockets' = sockets \ {conn}
    /\ port' = port - 1
    /\ pc' = "for"
    /\ UNCHANGED <<err, conn, stdout, exitCode, run, prevStdout, env,
                   attempted, succeeded>>

\* conn.Close() }  port++
Close ==
    /\ pc = "close"
    /\ sockets' = sockets \ {conn}
    /\ port' = port + 1
    /\ pc' = "for"
    /\ UNCHANGED <<err, conn, stdout, exitCode, run, prevStdout, env,
                   attempted, succeeded>>

\* A failed connect ends the loop (break).
SkipAborts ==
    /\ pc = "if"
    /\ err # "nil"
    /\ port' = HighPort + 1
    /\ pc' = "for"
    /\ UNCHANGED <<err, conn, sockets, stdout, exitCode, run, prevStdout, env,
                   attempted, succeeded>>

\* The report is printed whatever err is.
SkipReports ==
    /\ pc = "if"
    /\ err # "nil"
    /\ stdout' = Append(stdout, Line(port))
    /\ port' = port + 1
    /\ pc' = "for"
    /\ UNCHANGED <<err, conn, sockets, exitCode, run, prevStdout, env,
                   attempted, succeeded>>

\* err != nil: the body of the if is skipped;  port++
Skip ==
    /\ pc = "if"
    /\ err # "nil"
    /\ port' = port + 1
    /\ pc' = "for"
    /\ UNCHANGED <<err, conn, sockets, stdout, exitCode, run, prevStdout, env,
                   attempted, succeeded>>

\* Loop condition false: main returns, the process exits with status 0.
Exit ==
    /\ pc = "for"
    /\ port > HighPort
    /\ exitCode' = 0
    /\ pc' = "done"
    /\ UNCHANGED <<port, err, conn, sockets, stdout, run, prevStdout, env,
                   attempted, succeeded>>

\* The loop variable survives from one execution to the next.
RerunStalePort ==
    /\ pc = "done"
    /\ run = 1
    /\ run' = 2
    /\ prevStdout' = stdout
    /\ pc' = "for"
    /\ err' = "nil"
    /\ conn' = 0
    /\ sockets' = {}
    /\ stdout' = <<>>
    /\ exitCode' = -1
    /\ attempted' = <<>>
    /\ succeeded' = {}
    /\ UNCHANGED <<port, env>>

\* The program is executed a second time against the same target: main
\* starts again from its initial state; nothing of the first execution is
\* kept by the program (its output is remembered for comparison).
Rerun ==
    /\ pc = "done"
    /\ run = 1
    /\ run' = 2
    /\ prevStdout' = stdout
    /\ pc' = "for"
    /\ port' = LowPort
    /\ err' = "nil"
    /\ conn' = 0
    /\ sockets' = {}
    /\ stdout' = <<>>
    /\ exitCode' = -1
    /\ attempted' = <<>>
    /\ succeeded' = {}
    /\ UNCHANGED env

Next == Dial \/ Report \/ Close \/ Skip \/ Exit

Spec == Init /\ [][Next]_vars

\* The program is sequential and every call it makes returns (the dial is
\* bounded by its timeout), so a step that can be taken is taken.
FairSpec == Spec /\ WF_vars(Next)

NextTwice == Next \/ Rerun

SpecTwice == Init /\ [][NextTwice]_vars

\* ---- helpers of the properties ----------------------------------------
NumPorts == HighPort - LowPort + 1

AllPortsInOrder == [i \in 1..NumPorts |-> LowPort + i - 1]

Count(p, out) == Cardinality({i \in DOMAIN out : PortOf(out[i]) = p})

\* ---- C1 ---------------------------------------------------------------
\* C1: the ports attempted so far are exactly LowPort, LowPort+1, ... in
\* ascending order without gap or repetition, none outside [20, 1024]; an
\* attempt that failed is followed by the loop head for the next port; and
\* when the scan has ended every port of [20, 1024] has been attempted.
C1_EveryPortOnceAscending ==
    /\ Len(attempted) <= NumPorts
    /\ attempted = SubSeq(AllPortsInOrder, 1, Len(attempted))
    /\ pc = "for" => Len(attempted) = port - LowPort
    /\ pc \in {"if", "close"} => Len(attempted) = port - LowPort + 1
    /\ pc = "done" => attempted = AllPortsInOrder

C1_Witness ==
    /\ pc = "done"
    /\ Len(attempted) = NumPorts
    /\ succeeded # {}
    /\ \E i \in DOMAIN attempted : attempted[i] \notin succeeded

\* ---- C2 ---------------------------------------------------------------
\* C2: no port appears twice in the output, and every port whose connect
\* succeeded is reported exactly once (the port just connected, whose
\* report is the next step, not yet).
C2_ReportedExactlyOnce ==
    /\ \A i, j \in DOMAIN stdout :
          PortOf(stdout[i]) = PortOf(stdout[j]) => i = j
    /\ \A p \in succeeded :
          Count(p, stdout) = IF pc = "if" /\ p = port THEN 0 ELSE 1
    /\ pc = "done" => \A p \in succeeded : Count(p, stdout) = 1

C2_Witness ==
    /\ pc = "done"
    /\ Cardinality(succeeded) >= 2
    /\ Len(stdout) = Cardinality(succeeded)

\* ---- C3 ---------------------------------------------------------------
\* C3: only ports whose connect succeeded are reported; a port whose
\* attempt failed is never in the output.
C3_FailedNeverReported ==
    /\ ReportedSet(stdout) \subseteq succeeded
    /\ (pc = "if" /\ err # "nil") => port \notin ReportedSet(stdout)
    /\ \A p \in Candidates :
          (p \in LowPort..(port - 1) /\ p \notin succeeded)
             => p \notin ReportedSet(stdout)

C3_Witness ==
    /\ pc = "done"
    /\ stdout # <<>>
    /\ \E p \in Candidates : p \in LowPort..HighPort /\ p \notin succeeded
    /\ err \in {"refused", "timeout"}

\* ---- C4 ---------------------------------------------------------------
\* C4: when the target does not resolve, the scan reports nothing, stops
\* attempting ports once the failure has shown, and does not exit with
\* status 0.
C4_ResolutionFailureAborts ==
    ~resolves =>
        /\ stdout = <<>>
        /\ Len(attempted) <= 1
        /\ exitCode # 0

\* ---- C5 ---------------------------------------------------------------
\* C5: resolution happens once, before the first port attempt: a
\* resolution error never shows up after a port has been attempted.
C5_ResolveOnceUpFront ==
    (pc = "if" /\ err = "resolve") => Len(attempted) <= 1

\* ---- C7 ---------------------------------------------------------------
\* C7: the scan terminates, and it has terminated only when every port of
\* the range has been attempted.
C7_Terminates ==
    /\ <>(pc = "done" /\ exitCode = 0)
    /\ [](pc = "done" => Len(attempted) = NumPorts)

C7_Witness ==
    /\ pc = "done"
    /\ exitCode = 0
    /\ Len(attempted) = NumPorts
    /\ err = "timeout"

\* ---- C8 ---------------------------------------------------------------
\* C8: the reported ports are strictly increasing in order of emission.
C8_StrictlyIncreasing ==
    \A i, j \in DOMAIN Reported(stdout) :
        i < j => Reported(stdout)[i] < Reported(stdout)[j]

C8_Witness ==
    /\ Len(stdout) >= 3
    /\ pc = "close"

\* ---- C9 ---------------------------------------------------------------
\* C9: a second execution against the unchanged target reports the same
\* set of ports as the first, and the set an execution reports is
\* determined by the environment alone: the ports of the range that
\* accept a connection, provided the host resolves.
ExpectedOpen ==
    IF resolves THEN accepting \cap (LowPort..HighPort) ELSE {}

C9_SameSetOnRerun ==
    /\ (run = 2 /\ pc = "done") => ReportedSet(stdout) = ReportedSet(prevStdout)
    /\ pc = "done" => ReportedSet(stdout) = ExpectedOpen

C9_Witness ==
    /\ run = 2
    /\ pc = "done"
    /\ Cardinality(ReportedSet(prevStdout)) >= 2
    /\ ReportedSet(stdout) = ReportedSet(prevStdout)

\* ---- C10 --------------------------------------------------------------
\* C10: for a port that connects: established, reported, closed, then the
\* next port.  At most one connection is open; at the loop head and at
\* the end none is, and every port that connected has been reported.
C10_ConnectReportCloseNext ==
    /\ Cardinality(sockets) <= 1
    /\ pc \in {"for", "done"} =>
          /\ sockets = {}
          /\ succeeded \subseteq ReportedSet(stdout)
    /\ (pc = "if" /\ err = "nil") =>
          /\ sockets = {port}
          /\ conn = port
          /\ port \notin ReportedSet(stdout)
    /\ (pc = "if" /\ err # "nil") => sockets = {}
    /\ pc = "close" =>
          /\ sockets = {port}
          /\ stdout # <<>>
          /\ PortOf(stdout[Len(stdout)]) = port

C10_Witness ==
    /\ pc = "done"
    /\ sockets = {}
    /\ Len(stdout) >= 2

====
